---- MODULE Spec2Model ----
(***************************************************************************)
(* Model of the upload service: the guest quota guard (utils/guest.js),    *)
(* the chunked-upload session endpoints (api/chunked-upload/init.js) and   *)
(* the storage backends (S3 client, Discord, HuggingFace).                 *)
(*                                                                         *)
(* Time is counted in seconds since the epoch of the model.  The external  *)
(* key-value store env.img_url is the variable kv: a map from keys to      *)
(* entries that carry their absolute expiration time.                      *)
(***************************************************************************)
EXTENDS Integers, Sequences, FiniteSets, TLC

VARIABLES now, env, kv, calls, inits, res, pending, signed

vars == <<now, env, kv, calls, inits, res, pending, signed>>

(***************************************************************************)
(* Bounds of the model.                                                    *)
(***************************************************************************)
\* number of half-day clock steps explored by the quota specification
MaxGuestSteps == 3
\* number of half-hour clock steps explored by the session specification
MaxUploadSteps == 2
\* seconds the clock of the quota specification advances by in one step
GuestStep == 43200
\* seconds the clock of the session specification advances by in one step
UploadStep == 1800
\* number of counted increments explored in one behaviour
MaxCalls == 10
\* number of successful session initialisations explored in one behaviour
MaxInits == 2
\* number of incrementGuestCount invocations that may be in flight at once
MaxConcurrent == 2
\* number of interleaved incrementGuestCount invocations in one behaviour
MaxRaceCalls == 4
\* number of seconds the clock of the signer specification advances
MaxSignSteps == 1

(***************************************************************************)
(* Program constants.                                                      *)
(***************************************************************************)
GUEST_TTL == 86400
SESSION_TTL == 3600
DEFAULT_DAILY_LIMIT == 10
DEFAULT_GUEST_MAX_SIZE == 5 * 1024 * 1024
CHUNK_SIZE == 5 * 1024 * 1024
MAX_FILE_SIZE == 100 * 1024 * 1024
\* a UTC calendar day
SecondsPerDay == 24 * 60 * 60

(***************************************************************************)
(* JavaScript text and number conversions.  A text is a sequence of        *)
(* one-character strings; an optional text is [def, s].                    *)
(***************************************************************************)
Digits == <<"0", "1", "2", "3", "4", "5", "6", "7", "8", "9">>

IsDigit(c) == \E i \in 1..10 : Digits[i] = c

DigitVal(c) == (CHOOSE i \in 1..10 : Digits[i] = c) - 1

Text(s) == [def |-> TRUE, s |-> s]

NoText == [def |-> FALSE, s |-> <<>>]

NaN == [nan |-> TRUE, n |-> 0]

RECURSIVE ParseDigits(_, _, _)
ParseDigits(s, i, acc) ==
    IF i > Len(s) \/ ~IsDigit(s[i]) THEN acc
    ELSE ParseDigits(s, i + 1, acc * 10 + DigitVal(s[i]))

\* parseInt(t): the leading decimal digits of t; NaN for null, undefined, ""
\* and a text that does not start with a digit.
ParseInt(t) ==
    IF ~t.def \/ Len(t.s) = 0 THEN NaN
    ELSE IF ~IsDigit(t.s[1]) THEN NaN
    ELSE [nan |-> FALSE, n |-> ParseDigits(t.s, 1, 0)]

\* parseInt(x) || d : NaN and 0 are falsy
OrDefault(p, d) == IF p.nan \/ p.n = 0 THEN d ELSE p.n

\* String(n) for n >= 0
RECURSIVE NumberToString(_)
NumberToString(n) ==
    IF n < 10 THEN <<Digits[n + 1]>>
    ELSE NumberToString(n \div 10) \o <<Digits[(n % 10) + 1]>>

(***************************************************************************)
(* Requests: the three headers getClientIP looks at.  X-Forwarded-For is   *)
(* a comma separated list; each part may carry surrounding blanks.         *)
(***************************************************************************)
Header(s) == [def |-> TRUE, s |-> s]

NoHeader == [def |-> FALSE, s |-> ""]

Part(s, padded) == [s |-> s, padded |-> padded]

XFF(parts) == [def |-> TRUE, parts |-> parts]

NoXFF == [def |-> FALSE, parts |-> <<Part("", FALSE)>>]

\* String.prototype.trim
Trim(part) == part.s

Requests ==
    { [cf |-> Header("1.1.1.1"), xff |-> XFF(<<Part("2.2.2.2", FALSE)>>), real |-> NoHeader],
      [cf |-> NoHeader, xff |-> XFF(<<Part("1.1.1.1", TRUE), Part("2.2.2.2", FALSE)>>),
       real |-> Header("2.2.2.2")],
      [cf |-> Header(""), xff |-> XFF(<<Part("", TRUE), Part("2.2.2.2", FALSE)>>),
       real |-> Header("1.1.1.1")],
      [cf |-> NoHeader, xff |-> NoXFF, real |-> NoHeader] }

getClientIP(request) ==
    IF request.cf.def /\ request.cf.s # "" THEN request.cf.s
    ELSE IF request.xff.def /\ Trim(Head(request.xff.parts)) # ""
         THEN Trim(Head(request.xff.parts))
    ELSE IF request.real.def /\ request.real.s # "" THEN request.real.s
    ELSE "0.0.0.0"

IPs == {getClientIP(r) : r \in Requests}

\* getTodayKey: the UTC calendar day of the clock, as the number of the day
getTodayKey(t) == t \div SecondsPerDay

(***************************************************************************)
(* The key-value store.                                                    *)
(***************************************************************************)
\* variant: the key leaves the day out
GuestKeyAnyDay(ip, today) == [ns |-> "guest", ip |-> ip, day |-> 0, id |-> ""]

\* `guest:${ip}:${today}`
GuestKey(ip, today) == [ns |-> "guest", ip |-> ip, day |-> today, id |-> ""]

\* `upload:${uploadId}`
UploadKey(uploadId) == [ns |-> "upload", ip |-> "", day |-> 0, id |-> uploadId]

NoJson == [k \in {} |-> 0]

Live(store, key, t) == key \in DOMAIN store /\ t < store[key].expiration

\* env.img_url.get(key): the stored text, null when absent or expired
KVGetText(store, key, t) ==
    IF Live(store, key, t) THEN Text(store[key].text) ELSE NoText

\* env.img_url.put(key, value, {expirationTtl})
KVPut(store, key, text, json, ttl, t) ==
    (key :> [text |-> text, json |-> json, expiration |-> t + ttl]) @@ store

\* the store drops the entries whose expiration has passed
Purge(store, t) ==
    [k \in {x \in DOMAIN store : t < store[x].expiration} |-> store[k]]

(***************************************************************************)
(* Configuration.                                                          *)
(***************************************************************************)
Envs ==
    [ GUEST_UPLOAD : {"true", "false"},
      GUEST_MAX_FILE_SIZE : {NoText, Text(<<"1", "0", "0">>)},
      GUEST_DAILY_LIMIT : {NoText, Text(<<"2">>)},
      img_url : BOOLEAN ]

GuestMaxSize(e) == OrDefault(ParseInt(e.GUEST_MAX_FILE_SIZE), DEFAULT_GUEST_MAX_SIZE)

GuestDailyLimit(e) == OrDefault(ParseInt(e.GUEST_DAILY_LIMIT), DEFAULT_DAILY_LIMIT)

FileSizes == {0, 100, 101, DEFAULT_GUEST_MAX_SIZE, DEFAULT_GUEST_MAX_SIZE + 1}

\* which store call of a handler fails, if any
Failures == {"none", "get", "put"}

(***************************************************************************)
(* checkGuestUpload                                                        *)
(***************************************************************************)
Denied(status) ==
    [allowed |-> FALSE, status |-> status, hasRemaining |-> FALSE,
     remaining |-> 0, raised |-> FALSE]

RateLimited ==
    [allowed |-> FALSE, status |-> 429, hasRemaining |-> TRUE,
     remaining |-> 0, raised |-> FALSE]

Allowed(remaining) ==
    [allowed |-> TRUE, status |-> 0, hasRemaining |-> TRUE,
     remaining |-> remaining, raised |-> FALSE]

AllowedOpen ==
    [allowed |-> TRUE, status |-> 0, hasRemaining |-> FALSE,
     remaining |-> 0, raised |-> FALSE]

\* variant: the size cap is tested before the configuration switch
checkGuestUploadSizeFirst(e, store, t, request, fileSize, fail) ==
    IF fileSize > GuestMaxSize(e) THEN Denied(413)
    ELSE IF e.GUEST_UPLOAD # "true" THEN Denied(401)
    ELSE IF ~e.img_url THEN AllowedOpen
    ELSE IF fail = "get" THEN AllowedOpen
    ELSE LET dailyLimit == GuestDailyLimit(e)
             kvKey == GuestKey(getClientIP(request), getTodayKey(t))
             currentCount == OrDefault(ParseInt(KVGetText(store, kvKey, t)), 0)
         IN  IF currentCount >= dailyLimit THEN RateLimited
             ELSE Allowed(dailyLimit - currentCount)

checkGuestUpload(e, store, t, request, fileSize, fail) ==
    IF e.GUEST_UPLOAD # "true" THEN Denied(401)
    ELSE IF fileSize > GuestMaxSize(e) THEN Denied(413)
    ELSE IF ~e.img_url THEN AllowedOpen
    ELSE IF fail = "get" THEN AllowedOpen
    ELSE LET dailyLimit == GuestDailyLimit(e)
             kvKey == GuestKey(getClientIP(request), getTodayKey(t))
             currentCount == OrDefault(ParseInt(KVGetText(store, kvKey, t)), 0)
         IN  IF currentCount >= dailyLimit THEN RateLimited
             ELSE Allowed(dailyLimit - currentCount)

(***************************************************************************)
(* incrementGuestCount: the store after the call, and whether it raised    *)
(***************************************************************************)
\* variant: no try/catch around the store calls
incrementGuestCountNoCatch(e, store, t, request, fail) ==
    IF ~e.img_url \/ e.GUEST_UPLOAD # "true" THEN [kv |-> store, raised |-> FALSE]
    ELSE IF fail # "none" THEN [kv |-> store, raised |-> TRUE]
    ELSE LET kvKey == GuestKey(getClientIP(request), getTodayKey(t))
             currentCount == OrDefault(ParseInt(KVGetText(store, kvKey, t)), 0)
         IN  [kv |-> KVPut(store, kvKey, NumberToString(currentCount + 1), NoJson, GUEST_TTL, t),
              raised |-> FALSE]

incrementGuestCount(e, store, t, request, fail) ==
    IF ~e.img_url \/ e.GUEST_UPLOAD # "true" THEN [kv |-> store, raised |-> FALSE]
    ELSE IF fail # "none" THEN [kv |-> store, raised |-> FALSE]
    ELSE LET kvKey == GuestKey(getClientIP(request), getTodayKey(t))
             currentCount == OrDefault(ParseInt(KVGetText(store, kvKey, t)), 0)
         IN  [kv |-> KVPut(store, kvKey, NumberToString(currentCount + 1), NoJson, GUEST_TTL, t),
              raised |-> FALSE]


(***************************************************************************)
(* JavaScript values of a request body and of a JSON document              *)
(***************************************************************************)
Undef == [t |-> "undefined", n |-> 0, s |-> "", a |-> <<>>]

Num(n) == [t |-> "number", n |-> n, s |-> "", a |-> <<>>]

Str(s) == [t |-> "string", n |-> 0, s |-> s, a |-> <<>>]

Bool(b) == [t |-> "boolean", n |-> IF b THEN 1 ELSE 0, s |-> "", a |-> <<>>]

Arr(a) == [t |-> "array", n |-> 0, s |-> "", a |-> a]

\* !v is false: undefined, 0 and "" are falsy
Truthy(v) ==
    \/ v.t = "number" /\ v.n # 0
    \/ v.t = "string" /\ v.s # ""
    \/ v.t = "boolean" /\ v.n = 1
    \/ v.t = "array"

\* JSON.stringify leaves out the properties whose value is undefined;
\* get(key, {type: 'json'}) parses the document back
JSONStringify(obj) == [k \in {x \in DOMAIN obj : obj[x].t # "undefined"} |-> obj[k]]

\* env.img_url.get(key, {type: 'json'}): the parsed document, null when absent
KVGetJson(store, key, t) ==
    IF Live(store, key, t) THEN [found |-> TRUE, json |-> store[key].json]
    ELSE [found |-> FALSE, json |-> NoJson]

(***************************************************************************)
(* generateUploadId: 16 random bytes, each printed as two hex digits       *)
(***************************************************************************)
ID_BYTES == 16

HexDigits == <<"0", "1", "2", "3", "4", "5", "6", "7", "8", "9",
               "a", "b", "c", "d", "e", "f">>

\* b.toString(16).padStart(2, '0')
Hex2(b) == HexDigits[(b \div 16) + 1] \o HexDigits[(b % 16) + 1]

RECURSIVE JoinHex(_, _)
JoinHex(array, i) ==
    IF i > Len(array) THEN "" ELSE Hex2(array[i]) \o JoinHex(array, i + 1)

\* the values crypto.getRandomValues may fill the array with (a sample)
RandomArrays ==
    { [i \in 1..ID_BYTES |-> 0],
      [i \in 1..ID_BYTES |-> (i * 37) % 256] }

generateUploadId(array) == JoinHex(array, 1)

UploadIds == {generateUploadId(a) : a \in RandomArrays}

(***************************************************************************)
(* POST /api/chunked-upload/init                                           *)
(***************************************************************************)
validModes == {"telegram", "r2", "s3", "discord", "huggingface"}

\* variant: an unrecognised tag is stored as it was supplied
normalizeStorageAsGiven(storageMode) ==
    IF storageMode.t = "string" THEN storageMode.s ELSE "telegram"

normalizeStorage(storageMode) ==
    IF storageMode.t = "string" /\ storageMode.s \in validModes
    THEN storageMode.s ELSE "telegram"

\* variant: a file of exactly the maximum size is refused
exceedsMaxInclusive(fileSize) == fileSize.n >= MAX_FILE_SIZE

\* fileSize > MAX_FILE_SIZE
exceedsMax(fileSize) == fileSize.n > MAX_FILE_SIZE

BaseBody ==
    [parsed |-> TRUE, fileName |-> Str("a.bin"), fileSize |-> Num(1),
     fileType |-> Str("image/png"), totalChunks |-> Num(1), storageMode |-> Str("s3")]

\* a body that is not JSON: request.json() throws
BadBody ==
    [parsed |-> FALSE, fileName |-> Undef, fileSize |-> Undef,
     fileType |-> Undef, totalChunks |-> Undef, storageMode |-> Undef]

Bodies ==
    {BaseBody, BadBody}
    \cup {[BaseBody EXCEPT !.fileName = v] : v \in {Undef, Str("")}}
    \cup {[BaseBody EXCEPT !.fileSize = v] :
            v \in {Undef, Num(0), Num(MAX_FILE_SIZE + 1)}}
    \cup {[BaseBody EXCEPT !.fileType = v] : v \in {Undef}}
    \cup {[BaseBody EXCEPT !.totalChunks = v] : v \in {Undef, Num(0)}}
    \cup {[BaseBody EXCEPT !.storageMode = v] : v \in {Undef, Str("ftp")}}
    \cup {[BaseBody EXCEPT !.fileSize = Num(MAX_FILE_SIZE), !.totalChunks = Num(20),
                           !.storageMode = Str("S3")]}
    \cup {[BaseBody EXCEPT !.totalChunks = Num(2)]}

Response(status, uploadId) ==
    [status |-> status, success |-> status = 200, uploadId |-> uploadId,
     chunkSize |-> IF status = 200 THEN CHUNK_SIZE ELSE 0, data |-> NoJson]

\* the handler's response and the store after it.  authRequired and
\* authenticated are the answers of isAuthRequired and checkAuthentication.
onRequestPost(e, store, t, authRequired, authenticated, request, body, array, fail) ==
    LET isAdmin == IF authRequired THEN authenticated ELSE TRUE
        guestCheck == checkGuestUpload(e, store, t, request, 0, fail)
    IN
    IF ~isAdmin /\ ~guestCheck.allowed THEN [resp |-> Response(403, ""), kv |-> store]
    ELSE IF ~body.parsed THEN [resp |-> Response(500, ""), kv |-> store]
    ELSE IF ~Truthy(body.fileName) \/ ~Truthy(body.fileSize) \/ ~Truthy(body.totalChunks)
         THEN [resp |-> Response(400, ""), kv |-> store]
    ELSE IF exceedsMax(body.fileSize) THEN [resp |-> Response(400, ""), kv |-> store]
    ELSE LET uploadId == generateUploadId(array)
             uploadTask ==
                 [uploadId |-> Str(uploadId),
                  fileName |-> body.fileName,
                  fileSize |-> body.fileSize,
                  fileType |-> body.fileType,
                  totalChunks |-> body.totalChunks,
                  storageMode |-> Str(normalizeStorage(body.storageMode)),
                  uploadedChunks |-> Arr(<<>>),
                  createdAt |-> Num(t * 1000),
                  status |-> Str("pending")]
         IN  IF ~e.img_url \/ fail = "put"
             THEN [resp |-> Response(500, ""), kv |-> store]
             ELSE [resp |-> Response(200, uploadId),
                   kv |-> KVPut(store, UploadKey(uploadId), <<>>,
                                JSONStringify(uploadTask), SESSION_TTL, t)]

(***************************************************************************)
(* GET /api/chunked-upload/init?uploadId=...                               *)
(***************************************************************************)
NoParam == [def |-> FALSE, s |-> ""]

Param(s) == [def |-> TRUE, s |-> s]

UploadIdParams == {NoParam, Param(""), Param("ffff")} \cup {Param(id) : id \in UploadIds}

StatusResponse(status, data) ==
    [status |-> status, success |-> status = 200, uploadId |-> "",
     chunkSize |-> 0, data |-> data]

onRequestGet(e, store, t, uploadId, fail) ==
    IF ~uploadId.def \/ uploadId.s = "" THEN StatusResponse(400, NoJson)
    ELSE IF ~e.img_url \/ fail = "get" THEN StatusResponse(500, NoJson)
    ELSE LET taskData == KVGetJson(store, UploadKey(uploadId.s), t)
         IN  IF ~taskData.found THEN StatusResponse(404, NoJson)
             ELSE StatusResponse(200, taskData.json @@ ("success" :> Bool(TRUE)))

(***************************************************************************)
(* Storage backends.  A call issues at most one upstream request; reply is *)
(* what fetch does with it: it rejects (a transport error) or resolves to  *)
(* a response with a status whose body may parse as JSON and may carry an  *)
(* attachment.                                                             *)
(***************************************************************************)
TransportError == [rejected |-> TRUE, status |-> 0, json |-> FALSE, attachment |-> FALSE]

Replies ==
    {TransportError}
    \cup [rejected : {FALSE}, status : {200, 204, 206, 403, 404, 500},
          json : BOOLEAN, attachment : BOOLEAN]

\* response.ok
Ok(reply) == reply.status >= 200 /\ reply.status <= 299

BackendEnvs ==
    [DISCORD_WEBHOOK_URL : {"", "https://discord.test/hook"},
     DISCORD_BOT_TOKEN : {"", "token"},
     DISCORD_CHANNEL_ID : {"", "channel"},
     HF_TOKEN : {"", "hf_token"},
     HF_REPO : {"", "user/repo"}]

\* what a call hands back, and the upstream requests it has issued
Out(kind, requests) == [kind |-> kind, requests |-> requests]

\* uploadViaWebhook and uploadViaBot: the same handling of the reply
uploadVia(target, reply) ==
    IF reply.rejected THEN Out("failure", <<target>>)
    ELSE IF ~Ok(reply) THEN Out("failure", <<target>>)
    ELSE IF ~reply.json THEN Out("failure", <<target>>)
    ELSE IF ~reply.attachment THEN Out("failure", <<target>>)
    ELSE Out("success", <<target>>)

uploadViaWebhook(reply) == uploadVia("webhook", reply)

uploadViaBot(reply) == uploadVia("bot", reply)

\* variant: a failed webhook upload is retried through the bot
uploadToDiscordFallback(e, reply) ==
    IF e.DISCORD_WEBHOOK_URL # ""
    THEN LET first == uploadViaWebhook(reply)
         IN  IF first.kind = "failure" /\ e.DISCORD_BOT_TOKEN # ""
                    /\ e.DISCORD_CHANNEL_ID # ""
             THEN Out(uploadViaBot(reply).kind, <<"webhook", "bot">>)
             ELSE first
    ELSE IF e.DISCORD_BOT_TOKEN # "" /\ e.DISCORD_CHANNEL_ID # "" THEN uploadViaBot(reply)
    ELSE Out("failure", <<>>)

uploadToDiscord(e, reply) ==
    IF e.DISCORD_WEBHOOK_URL # "" THEN uploadViaWebhook(reply)
    ELSE IF e.DISCORD_BOT_TOKEN # "" /\ e.DISCORD_CHANNEL_ID # "" THEN uploadViaBot(reply)
    ELSE Out("failure", <<>>)

getDiscordFileUrl(e, reply) ==
    IF e.DISCORD_BOT_TOKEN = "" THEN Out("raised", <<>>)
    ELSE IF reply.rejected THEN Out("raised", <<"discord">>)
    ELSE IF ~Ok(reply)
         THEN IF reply.status = 404 THEN Out("null", <<"discord">>)
              ELSE Out("raised", <<"discord">>)
    ELSE IF ~reply.json THEN Out("raised", <<"discord">>)
    ELSE IF ~reply.attachment THEN Out("null", <<"discord">>)
    ELSE Out("value", <<"discord">>)

deleteDiscordMessage(e, reply) ==
    IF e.DISCORD_BOT_TOKEN = "" THEN Out("false", <<>>)
    ELSE IF reply.rejected THEN Out("false", <<"discord">>)
    ELSE IF Ok(reply) \/ reply.status = 204 THEN Out("true", <<"discord">>)
    ELSE Out("false", <<"discord">>)

putObject(reply) ==
    IF reply.rejected THEN Out("raised", <<"s3">>)
    ELSE IF ~Ok(reply) THEN Out("raised", <<"s3">>)
    ELSE Out("value", <<"s3">>)

getObject(reply) ==
    IF reply.rejected THEN Out("raised", <<"s3">>)
    ELSE IF ~Ok(reply) /\ reply.status # 206
         THEN IF reply.status = 404 THEN Out("null", <<"s3">>)
              ELSE Out("raised", <<"s3">>)
    ELSE Out("response", <<"s3">>)

deleteObject(reply) ==
    IF reply.rejected THEN Out("raised", <<"s3">>)
    ELSE IF ~Ok(reply) /\ reply.status # 204 THEN Out("raised", <<"s3">>)
    ELSE Out("true", <<"s3">>)

headObject(reply) ==
    IF reply.rejected THEN Out("raised", <<"s3">>)
    ELSE IF ~Ok(reply)
         THEN IF reply.status = 404 THEN Out("null", <<"s3">>)
              ELSE Out("raised", <<"s3">>)
    ELSE Out("value", <<"s3">>)

uploadToHuggingFace(e, reply) ==
    IF e.HF_TOKEN = "" \/ e.HF_REPO = "" THEN Out("failure", <<>>)
    ELSE IF reply.rejected THEN Out("failure", <<"hf">>)
    ELSE IF ~Ok(reply) THEN Out("failure", <<"hf">>)
    ELSE IF ~reply.json THEN Out("failure", <<"hf">>)
    ELSE Out("success", <<"hf">>)

getHuggingFaceFile(e, reply) ==
    IF reply.rejected THEN Out("raised", <<"hf">>)
    ELSE Out("response", <<"hf">>)

deleteHuggingFaceFile(e, reply) ==
    IF e.HF_TOKEN = "" \/ e.HF_REPO = "" THEN Out("false", <<>>)
    ELSE IF reply.rejected THEN Out("false", <<"hf">>)
    ELSE IF Ok(reply) THEN Out("true", <<"hf">>)
    ELSE Out("false", <<"hf">>)

(***************************************************************************)
(* signRequest (AWS Signature V4).  A string is a sequence of one-character *)
(* strings; fixed literals of the protocol are kept as one element.        *)
(***************************************************************************)
\* the characters two compared strings may hold, in the order of localeCompare
Alphabet ==
    <<" ", "-", ":", "/", "&", "%", "=", "0", "1", "2", "3", "4", "5", "6", "7",
      "8", "9", "a", "b", "c", "d", "e", "h", "k", "m", "n", "o", "p", "s", "t",
      "x", "y", "z">>

Rank(c) == CHOOSE i \in 1..Len(Alphabet) : Alphabet[i] = c

\* a.localeCompare(b) < 0
RECURSIVE Before(_, _, _)
Before(a, b, i) ==
    IF i > Len(b) THEN FALSE
    ELSE IF i > Len(a) THEN TRUE
    ELSE IF a[i] = b[i] THEN Before(a, b, i + 1)
    ELSE Rank(a[i]) < Rank(b[i])

\* the comparators of the two sorts, on [name, value] pairs:
\* a[0].localeCompare(b[0]) || a[1].localeCompare(b[1]), and
\* a[0].localeCompare(b[0])
Precedes(a, b, thenByValue) ==
    \/ Before(a[1], b[1], 1)
    \/ thenByValue /\ a[1] = b[1] /\ Before(a[2], b[2], 1)

\* Array.prototype.sort: a stable insertion sort
RECURSIVE InsertSorted(_, _, _)
InsertSorted(sorted, x, thenByValue) ==
    IF sorted = <<>> THEN <<x>>
    ELSE IF Precedes(x, Head(sorted), thenByValue) THEN <<x>> \o sorted
    ELSE <<Head(sorted)>> \o InsertSorted(Tail(sorted), x, thenByValue)

RECURSIVE SortPairs(_, _)
SortPairs(list, thenByValue) ==
    IF list = <<>> THEN <<>>
    ELSE InsertSorted(SortPairs(SubSeq(list, 1, Len(list) - 1), thenByValue),
                      list[Len(list)], thenByValue)

\* list.join(sep)
RECURSIVE Join(_, _)
Join(list, sep) ==
    IF list = <<>> THEN <<>>
    ELSE IF Len(list) = 1 THEN list[1]
    ELSE list[1] \o sep \o Join(Tail(list), sep)

\* list.map(f).join('')
RECURSIVE Concat(_)
Concat(list) == IF list = <<>> THEN <<>> ELSE Head(list) \o Concat(Tail(list))

\* the characters encodeURIComponent leaves as they are
Unreserved ==
    {"0", "1", "2", "3", "4", "5", "6", "7", "8", "9", "a", "b", "c", "d",
     "e", "f", "g", "h", "i", "j", "k", "l", "m", "n", "o", "p", "q", "r",
     "s", "t", "u", "v", "w", "x", "y", "z", "A", "B", "C", "D", "E", "F",
     "G", "H", "I", "J", "K", "L", "M", "N", "O", "P", "Q", "R", "S", "T",
     "U", "V", "W", "X", "Y", "Z", "-", "_", ".", "~", "!", "'", "(", ")",
     "*"}

\* the percent code of a character that is escaped
PercentCode ==
    (" " :> <<"%", "2", "0">>) @@ ("%" :> <<"%", "2", "5">>)
    @@ ("&" :> <<"%", "2", "6">>) @@ ("/" :> <<"%", "2", "F">>)
    @@ (":" :> <<"%", "3", "A">>) @@ ("=" :> <<"%", "3", "D">>)
    @@ ("!" :> <<"%", "2", "1">>) @@ ("'" :> <<"%", "2", "7">>)
    @@ ("(" :> <<"%", "2", "8">>) @@ (")" :> <<"%", "2", "9">>)
    @@ ("*" :> <<"%", "2", "A">>)

RECURSIVE encodeURIComponent(_)
encodeURIComponent(str) ==
    IF str = <<>> THEN <<>>
    ELSE (IF Head(str) \in Unreserved THEN <<Head(str)>> ELSE PercentCode[Head(str)])
         \o encodeURIComponent(Tail(str))

\* encoded.replace(/!/g, '%21').replace(/'/g, '%27') ... .replace(/\*/g, '%2A')
RECURSIVE EscapeExtra(_)
EscapeExtra(str) ==
    IF str = <<>> THEN <<>>
    ELSE (IF Head(str) \in {"!", "'", "(", ")", "*"} THEN PercentCode[Head(str)]
          ELSE <<Head(str)>>)
         \o EscapeExtra(Tail(str))

\* encoded.replace(/%2F/g, '/')
RECURSIVE RestoreSlash(_)
RestoreSlash(str) ==
    IF Len(str) < 3 THEN str
    ELSE IF SubSeq(str, 1, 3) = <<"%", "2", "F">>
         THEN <<"/">> \o RestoreSlash(SubSeq(str, 4, Len(str)))
    ELSE <<Head(str)>> \o RestoreSlash(Tail(str))

\* variant: the reserved characters are left as they are
uriEncodeKeepReserved(str, encodeSlash) == str

uriEncode(str, encodeSlash) ==
    LET encoded == EscapeExtra(encodeURIComponent(str))
    IN  IF ~encodeSlash THEN RestoreSlash(encoded) ELSE encoded

\* crypto.subtle.digest('SHA-256', data): an injective image of the data
Digest(data) == <<"{">> \o data \o <<"}">>

\* the hexadecimal text of a buffer: an injective image of the buffer
arrayBufferToHex(buffer) == <<"<">> \o buffer \o <<">">>

sha256Hex(data) == arrayBufferToHex(Digest(data))

\* crypto.subtle.sign('HMAC', key, data): an injective image of key and data
hmacSha256(key, data) == <<"[">> \o key \o <<"|">> \o data \o <<"]">>

\* n as two decimal digits
Pad2(n) == IF n < 10 THEN <<"0">> \o NumberToString(n) ELSE NumberToString(n)

\* str.padStart(width, '0')
RECURSIVE PadStart(_, _)
PadStart(str, width) ==
    IF Len(str) >= width THEN str ELSE PadStart(<<"0">> \o str, width)

\* the date of now.toISOString() without its separators: eight digits
dateStampOf(t) == PadStart(NumberToString(getTodayKey(t)), 8)

\* dateStamp + 'T' + hhmmss + 'Z'
amzDateOf(t) ==
    LET secs == t % SecondsPerDay
    IN  dateStampOf(t) \o <<"T">> \o Pad2(secs \div 3600)
        \o Pad2((secs % 3600) \div 60) \o Pad2(secs % 60) \o <<"Z">>

\* headers[name] = value: an own property keeps its place, a new one is added last
SetHeader(headers, name, value) ==
    IF \E i \in 1..Len(headers) : headers[i][1] = name
    THEN [i \in 1..Len(headers) |->
            IF headers[i][1] = name THEN <<name, value>> ELSE headers[i]]
    ELSE Append(headers, <<name, value>>)

UpperToLower == ("A" :> "a") @@ ("C" :> "c") @@ ("H" :> "h") @@ ("T" :> "t")

\* String.prototype.toLowerCase
ToLowerCase(str) ==
    [i \in 1..Len(str) |->
        IF str[i] \in DOMAIN UpperToLower THEN UpperToLower[str[i]] ELSE str[i]]

\* String.prototype.trim on a string of characters
RECURSIVE TrimStart(_)
TrimStart(str) ==
    IF str # <<>> /\ Head(str) = " " THEN TrimStart(Tail(str)) ELSE str

RECURSIVE TrimEnd(_)
TrimEnd(str) ==
    IF str # <<>> /\ str[Len(str)] = " "
    THEN TrimEnd(SubSeq(str, 1, Len(str) - 1)) ELSE str

TrimText(str) == TrimEnd(TrimStart(str))

\* 'x-amz-date', 'x-amz-content-sha256', 'host' and 'Authorization'
XAmzDate == <<"x", "-", "a", "m", "z", "-", "d", "a", "t", "e">>

XAmzContentSha256 ==
    <<"x", "-", "a", "m", "z", "-", "c", "o", "n", "t", "e", "n", "t", "-",
      "s", "h", "a", "2", "5", "6">>

HostHeader == <<"h", "o", "s", "t">>

AuthorizationHeader ==
    <<"A", "u", "t", "h", "o", "r", "i", "z", "a", "t", "i", "o", "n">>

\* the value of headers.Authorization in a header map
Authorization(headers) ==
    LET i == CHOOSE k \in 1..Len(headers) : headers[k][1] = AuthorizationHeader
    IN  headers[i][2]

\* url is the parsed URL: [host, pathname, searchParams]; t is new Date()
signRequest(method, url, headers, body, credentials, t) ==
    LET dateStamp == dateStampOf(t)
        amzDate == amzDateOf(t)
        payloadHash == IF body.def /\ body.s # <<>> THEN sha256Hex(body.s)
                       ELSE sha256Hex(<<>>)
        withDate == SetHeader(headers, XAmzDate, amzDate)
        withHash == SetHeader(withDate, XAmzContentSha256, payloadHash)
        withHost == SetHeader(withHash, HostHeader, url.host)
        canonicalUri == uriEncode(url.pathname, FALSE)
        sortedQuery == SortPairs(url.searchParams, TRUE)
        canonicalQueryString ==
            Join([i \in 1..Len(sortedQuery) |->
                    uriEncode(sortedQuery[i][1], TRUE) \o <<"=">>
                        \o uriEncode(sortedQuery[i][2], TRUE)], <<"&">>)
        sortedHeaders ==
            SortPairs([i \in 1..Len(withHost) |->
                        <<TrimText(ToLowerCase(withHost[i][1])), TrimText(withHost[i][2])>>],
                      FALSE)
        canonicalHeaders ==
            Concat([i \in 1..Len(sortedHeaders) |->
                      sortedHeaders[i][1] \o <<":">> \o sortedHeaders[i][2] \o <<"\n">>])
        signedHeaders ==
            Join([i \in 1..Len(sortedHeaders) |-> sortedHeaders[i][1]], <<";">>)
        canonicalRequest ==
            Join(<<method, canonicalUri, canonicalQueryString, canonicalHeaders,
                   signedHeaders, payloadHash>>, <<"\n">>)
        credentialScope ==
            dateStamp \o <<"/">> \o credentials.region \o <<"/">> \o credentials.service
                \o <<"/", "aws4_request">>
        stringToSign ==
            Join(<<(<<"AWS4-HMAC-SHA256">>), amzDate, credentialScope,
                   sha256Hex(canonicalRequest)>>, <<"\n">>)
        kDate == hmacSha256(<<"AWS4">> \o credentials.secretAccessKey, dateStamp)
        kRegion == hmacSha256(kDate, credentials.region)
        kService == hmacSha256(kRegion, credentials.service)
        kSigning == hmacSha256(kService, <<"aws4_request">>)
        signature == arrayBufferToHex(hmacSha256(kSigning, stringToSign))
        authorization ==
            <<"AWS4-HMAC-SHA256 Credential=">> \o credentials.accessKeyId \o <<"/">>
                \o credentialScope \o <<", SignedHeaders=">> \o signedHeaders
                \o <<", Signature=">> \o signature
    IN  [headers |-> SetHeader(withHost, AuthorizationHeader, authorization),
         signature |-> signature]

(***************************************************************************)
(* State machine                                                           *)
(***************************************************************************)
Idle == [op |-> "none"]

\* the invocations of incrementGuestCount that may run at the same time
Invocations == 1..MaxConcurrent

\* an invocation that has returned (or has not started)
NotRunning == [pc |-> "done", kvKey |-> GuestKey("", 0), countStr |-> NoText]

Init ==
    /\ now = 0
    /\ env \in Envs
    /\ kv = [k \in {} |-> 0]
    /\ calls = [k \in {} |-> 0]
    /\ inits = [k \in {} |-> 0]
    /\ res = Idle
    /\ pending = [i \in Invocations |-> NotRunning]
    /\ signed = <<>>

Calls(ip, day) ==
    LET k == [ip |-> ip, day |-> day] IN IF k \in DOMAIN calls THEN calls[k] ELSE 0

RECURSIVE SumCalls(_)
SumCalls(keys) ==
    IF keys = {} THEN 0
    ELSE LET k == CHOOSE x \in keys : TRUE IN calls[k] + SumCalls(keys \ {k})

TotalCalls == SumCalls(DOMAIN calls)

\* a guest calls checkGuestUpload
CheckGuest ==
    \E request \in Requests, fileSize \in FileSizes, fail \in {"none", "get"} :
        LET out == checkGuestUpload(env, kv, now, request, fileSize, fail)
        IN  /\ res = Idle
            /\ kv' = kv
            /\ res' = [op |-> "checkGuestUpload", ip |-> getClientIP(request),
                       day |-> getTodayKey(now), fileSize |-> fileSize, fail |-> fail,
                       out |-> out, wrote |-> kv' # kv]
            /\ UNCHANGED <<now, env, calls, inits, pending, signed>>

\* an upload of a guest is counted
IncrementGuest ==
    \E request \in Requests, fail \in Failures :
        LET ip == getClientIP(request)
            day == getTodayKey(now)
            out == incrementGuestCount(env, kv, now, request, fail)
            counted == env.img_url /\ env.GUEST_UPLOAD = "true" /\ fail = "none"
        IN  /\ res = Idle
            /\ TotalCalls < MaxCalls
            /\ kv' = out.kv
            /\ calls' = IF counted
                        THEN ([ip |-> ip, day |-> day] :> (Calls(ip, day) + 1)) @@ calls
                        ELSE calls
            /\ res' = [op |-> "incrementGuestCount", ip |-> ip, day |-> day,
                       fileSize |-> 0, fail |-> fail,
                       out |-> [allowed |-> FALSE, status |-> 0, hasRemaining |-> FALSE,
                                remaining |-> 0, raised |-> out.raised],
                       wrote |-> kv' # kv]
            /\ UNCHANGED <<now, env, inits, pending, signed>>

\* the response of the last call has reached its caller
Deliver ==
    /\ res # Idle
    /\ res' = Idle
    /\ UNCHANGED <<now, env, kv, calls, inits, pending, signed>>

\* time passes between two calls; the store drops what has expired
GuestClock ==
    /\ res = Idle
    /\ now + GuestStep <= MaxGuestSteps * GuestStep
    /\ now' = now + GuestStep
    /\ kv' = Purge(kv, now')
    /\ res' = Idle
    /\ UNCHANGED <<env, calls, inits, pending, signed>>

RECURSIVE SumInits(_)
SumInits(ids) ==
    IF ids = {} THEN 0
    ELSE LET k == CHOOSE x \in ids : TRUE IN inits[k].n + SumInits(ids \ {k})

TotalInits == SumInits(DOMAIN inits)

\* the requests init is called with: one with a client address, one without
InitRequests == {r \in Requests : ~r.real.def /\ (r.cf.def <=> r.cf.s # "")}

\* a client initialises a chunked upload
InitUpload ==
    \E authRequired \in BOOLEAN, authenticated \in BOOLEAN, request \in InitRequests,
       body \in Bodies, array \in RandomArrays, fail \in Failures :
        LET out == onRequestPost(env, kv, now, authRequired, authenticated, request,
                                 body, array, fail)
            id == out.resp.uploadId
        IN  /\ res = Idle
            /\ TotalInits < MaxInits
            /\ kv' = out.kv
            /\ inits' = IF out.resp.status = 200
                        THEN (id :> [body |-> body, at |-> now,
                                     task |-> out.kv[UploadKey(id)].json,
                                     n |-> IF id \in DOMAIN inits
                                           THEN inits[id].n + 1 ELSE 1]) @@ inits
                        ELSE inits
            /\ res' = [op |-> "init", authRequired |-> authRequired,
                       authenticated |-> authenticated, body |-> body, fail |-> fail,
                       out |-> out.resp, wrote |-> kv' # kv,
                       overwrote |-> out.resp.status = 200
                                     /\ Live(kv, UploadKey(id), now)]
            /\ UNCHANGED <<now, env, calls, pending, signed>>

\* a client asks for the state of an upload
GetStatus ==
    \E uploadId \in UploadIdParams, fail \in {"none", "get"} :
        /\ res = Idle
        /\ kv' = kv
        /\ res' = [op |-> "getStatus", uploadId |-> uploadId, fail |-> fail,
                   out |-> onRequestGet(env, kv, now, uploadId, fail),
                   wrote |-> kv' # kv]
        /\ UNCHANGED <<now, env, calls, inits, pending, signed>>

\* time passes between two calls; the store drops what has expired
UploadClock ==
    /\ res = Idle
    /\ now + UploadStep <= MaxUploadSteps * UploadStep
    /\ now' = now + UploadStep
    /\ kv' = Purge(kv, now')
    /\ res' = Idle
    /\ UNCHANGED <<env, calls, inits, pending, signed>>

InitUploadSpec ==
    /\ Init
    /\ env.GUEST_MAX_FILE_SIZE = NoText
    /\ env.GUEST_DAILY_LIMIT = NoText

NextUpload ==
    \/ InitUpload
    \/ GetStatus
    \/ Deliver
    \/ UploadClock

SpecUpload == InitUploadSpec /\ [][NextUpload]_vars


\* the record of a backend call: its operation, the capability it implements,
\* the configuration and the upstream reply it ran with, and what it handed back
Called(op, cap, e, reply, out) ==
    [op |-> op, cap |-> cap, benv |-> e, reply |-> reply, out |-> out, wrote |-> FALSE]

DiscordPut ==
    \E e \in BackendEnvs, reply \in Replies :
        /\ res = Idle
        /\ res' = Called("uploadToDiscord", "put", e, reply, uploadToDiscord(e, reply))
        /\ UNCHANGED <<now, env, kv, calls, inits, pending, signed>>

DiscordGet ==
    \E e \in BackendEnvs, reply \in Replies :
        /\ res = Idle
        /\ res' = Called("getDiscordFileUrl", "get", e, reply, getDiscordFileUrl(e, reply))
        /\ UNCHANGED <<now, env, kv, calls, inits, pending, signed>>

DiscordDelete ==
    \E e \in BackendEnvs, reply \in Replies :
        /\ res = Idle
        /\ res' = Called("deleteDiscordMessage", "delete", e, reply, deleteDiscordMessage(e, reply))
        /\ UNCHANGED <<now, env, kv, calls, inits, pending, signed>>

S3Put ==
    \E e \in BackendEnvs, reply \in Replies :
        /\ res = Idle
        /\ res' = Called("putObject", "put", e, reply, putObject(reply))
        /\ UNCHANGED <<now, env, kv, calls, inits, pending, signed>>

S3Get ==
    \E e \in BackendEnvs, reply \in Replies :
        /\ res = Idle
        /\ res' = Called("getObject", "get", e, reply, getObject(reply))
        /\ UNCHANGED <<now, env, kv, calls, inits, pending, signed>>

S3Delete ==
    \E e \in BackendEnvs, reply \in Replies :
        /\ res = Idle
        /\ res' = Called("deleteObject", "delete", e, reply, deleteObject(reply))
        /\ UNCHANGED <<now, env, kv, calls, inits, pending, signed>>

S3Head ==
    \E e \in BackendEnvs, reply \in Replies :
        /\ res = Idle
        /\ res' = Called("headObject", "stat", e, reply, headObject(reply))
        /\ UNCHANGED <<now, env, kv, calls, inits, pending, signed>>

HFPut ==
    \E e \in BackendEnvs, reply \in Replies :
        /\ res = Idle
        /\ res' = Called("uploadToHuggingFace", "put", e, reply, uploadToHuggingFace(e, reply))
        /\ UNCHANGED <<now, env, kv, calls, inits, pending, signed>>

HFGet ==
    \E e \in BackendEnvs, reply \in Replies :
        /\ res = Idle
        /\ res' = Called("getHuggingFaceFile", "get", e, reply, getHuggingFaceFile(e, reply))
        /\ UNCHANGED <<now, env, kv, calls, inits, pending, signed>>

HFDelete ==
    \E e \in BackendEnvs, reply \in Replies :
        /\ res = Idle
        /\ res' = Called("deleteHuggingFaceFile", "delete", e, reply, deleteHuggingFaceFile(e, reply))
        /\ UNCHANGED <<now, env, kv, calls, inits, pending, signed>>

NextBackend ==
    \/ DiscordPut
    \/ DiscordGet
    \/ DiscordDelete
    \/ S3Put
    \/ S3Get
    \/ S3Delete
    \/ S3Head
    \/ HFPut
    \/ HFGet
    \/ HFDelete
    \/ Deliver

SpecBackend == InitUploadSpec /\ [][NextBackend]_vars

(***************************************************************************)
(* incrementGuestCount, one store call at a time: every await is a point   *)
(* where another invocation may run.                                       *)
(***************************************************************************)
InFlight == {i \in Invocations : pending[i].pc # "done"}

\* an invocation starts: it passes the guard and computes its key
BeginIncrement(i) ==
    \E request \in Requests :
        /\ res = Idle
        /\ pending[i].pc = "done"
        /\ TotalCalls + Cardinality(InFlight) < MaxRaceCalls
        /\ env.img_url /\ env.GUEST_UPLOAD = "true"
        /\ pending' = [pending EXCEPT ![i] =
                          [pc |-> "get",
                           kvKey |-> GuestKey(getClientIP(request), getTodayKey(now)),
                           countStr |-> NoText]]
        /\ UNCHANGED <<now, env, kv, calls, inits, res, signed>>

\* countStr = await env.img_url.get(kvKey)
GetCount(i) ==
    /\ pending[i].pc = "get"
    /\ pending' = [pending EXCEPT ![i].pc = "put",
                                  ![i].countStr = KVGetText(kv, pending[i].kvKey, now)]
    /\ UNCHANGED <<now, env, kv, calls, inits, res, signed>>

\* await env.img_url.put(kvKey, String(currentCount + 1), {expirationTtl})
PutCount(i) ==
    /\ pending[i].pc = "put"
    /\ LET kvKey == pending[i].kvKey
           currentCount == OrDefault(ParseInt(pending[i].countStr), 0)
       IN  /\ kv' = KVPut(kv, kvKey, NumberToString(currentCount + 1), NoJson,
                          GUEST_TTL, now)
           /\ calls' = ([ip |-> kvKey.ip, day |-> kvKey.day]
                            :> (Calls(kvKey.ip, kvKey.day) + 1)) @@ calls
    /\ pending' = [pending EXCEPT ![i] = NotRunning]
    /\ UNCHANGED <<now, env, inits, res, signed>>

\* a guest calls checkGuestUpload after the invocations have returned
CheckGuestLater ==
    /\ InFlight = {}
    /\ CheckGuest

NextRace ==
    \/ \E i \in Invocations : BeginIncrement(i)
    \/ \E i \in Invocations : GetCount(i)
    \/ \E i \in Invocations : PutCount(i)
    \/ CheckGuestLater
    \/ Deliver

SpecRace == Init /\ [][NextRace]_vars

(***************************************************************************)
(* The signer: signed keeps the first and the second of two invocations,   *)
(* each with its arguments, the instant it ran at and what it returned.    *)
(***************************************************************************)
SignMethods == {<<"PUT">>}

SignHost == <<"s", "3", ".", "t", "e", "s", "t">>

\* parsedUrl.pathname of the signed URLs
SignPaths ==
    { <<"/", "b", "/", "k">>,
      <<"/", "b", "/", "a", "/", "b">>,
      <<"/", "b", "/", "a", "%", "2", "F", "b">> }

\* [...parsedUrl.searchParams] of the signed URLs
SignQueries ==
    { <<>>,
      << <<(<<"a">>), (<<"b", "&", "c", "=", "d">>)>> >>,
      << <<(<<"a">>), (<<"b">>)>>, <<(<<"c">>), (<<"d">>)>> >>,
      << <<(<<"c">>), (<<"d">>)>>, <<(<<"a">>), (<<"b">>)>> >>,
      << <<(<<"a">>), (<<"2">>)>>, <<(<<"a">>), (<<"1">>)>> >> }

ContentType == <<"c", "o", "n", "t", "e", "n", "t", "-", "t", "y", "p", "e">>

SignHeaders ==
    { <<>>,
      << <<ContentType, (<<"t">>)>> >>,
      << <<(<<"C">> \o Tail(ContentType)), (<<" ", "t", " ">>)>> >>,
      << <<HostHeader, (<<"e", "x", "a", "m", "p", "l", "e">>)>> >>,
      << <<(<<"x", "-", "a", "m", "z", "-", "m", "e", "t", "a", "-", "k">>), (<<"1">>)>>,
         <<ContentType, (<<"t">>)>> >> }

SignBodies == {NoText, Text(<<>>), Text(<<"x">>)}

SignCredentials ==
    { [accessKeyId |-> <<"AKID">>, secretAccessKey |-> <<"secret">>,
       region |-> <<"us-east-1">>, service |-> <<"s3">>] }

\* one invocation of signRequest at the instant now
Signed(method, url, headers, body, credentials) ==
    [method |-> method, url |-> url, headers |-> headers, body |-> body,
     credentials |-> credentials, at |-> now,
     out |-> signRequest(method, url, headers, body, credentials, now)]

SignFirst ==
    \E method \in SignMethods, pathname \in SignPaths, searchParams \in SignQueries,
       headers \in SignHeaders, body \in SignBodies, credentials \in SignCredentials :
        /\ signed = <<>>
        /\ signed' = <<Signed(method,
                              [host |-> SignHost, pathname |-> pathname,
                               searchParams |-> searchParams],
                              headers, body, credentials)>>
        /\ UNCHANGED <<now, env, kv, calls, inits, res, pending>>

SignSecond ==
    \E method \in SignMethods, pathname \in SignPaths, searchParams \in SignQueries,
       headers \in SignHeaders, body \in SignBodies, credentials \in SignCredentials :
        /\ Len(signed) = 1
        /\ signed' = Append(signed,
                            Signed(method,
                                   [host |-> SignHost, pathname |-> pathname,
                                    searchParams |-> searchParams],
                                   headers, body, credentials))
        /\ UNCHANGED <<now, env, kv, calls, inits, res, pending>>

\* the two invocations are over
SignDone ==
    /\ Len(signed) > 1
    /\ signed' = <<>>
    /\ UNCHANGED <<now, env, kv, calls, inits, res, pending>>

\* a second passes
SignClock ==
    /\ now < MaxSignSteps
    /\ now' = now + 1
    /\ UNCHANGED <<env, kv, calls, inits, res, pending, signed>>

InitSign ==
    /\ Init
    /\ env.GUEST_UPLOAD = "true" /\ env.img_url
    /\ env.GUEST_MAX_FILE_SIZE = NoText /\ env.GUEST_DAILY_LIMIT = NoText

NextSign ==
    \/ SignFirst
    \/ SignSecond
    \/ SignDone
    \/ SignClock

SpecSign == InitSign /\ [][NextSign]_vars

Next ==
    \/ CheckGuest
    \/ IncrementGuest
    \/ Deliver
    \/ GuestClock

Spec == Init /\ [][Next]_vars

(***************************************************************************)
(* Properties of the guest quota guard                                     *)
(***************************************************************************)
GuestEnabled == env.GUEST_UPLOAD = "true"

IsCheck == res.op = "checkGuestUpload"

IsIncrement == res.op = "incrementGuestCount"

\* C1: with guest uploads enabled, the store bound and no store failure, a
\* checkGuestUpload (of a file within the cap) for an IP that has had
\* dailyLimit or more counted increments on the current UTC day answers 429
\* with remaining = 0; for an (IP, day) with fewer counted increments, such as
\* the same IP on the next day or another IP on the same day, it answers
\* allowed.
C1_DailyQuota ==
    (IsCheck /\ GuestEnabled /\ env.img_url /\ res.fail = "none"
        /\ res.fileSize <= GuestMaxSize(env))
    => /\ Calls(res.ip, res.day) >= GuestDailyLimit(env)
            => (~res.out.allowed /\ res.out.status = 429
                /\ res.out.hasRemaining /\ res.out.remaining = 0)
       /\ Calls(res.ip, res.day) < GuestDailyLimit(env) => res.out.allowed

\* the quota of an IP is used up and the check answers 429
C1_Witness ==
    /\ IsCheck /\ GuestEnabled /\ env.img_url /\ res.fail = "none"
    /\ Calls(res.ip, res.day) = GuestDailyLimit(env)
    /\ res.out.status = 429 /\ res.out.remaining = 0

\* the same IP is allowed again on the day after its quota was used up
C1_WitnessNextDay ==
    /\ IsCheck /\ GuestEnabled /\ env.img_url /\ res.fail = "none"
    /\ res.day = 1 /\ Calls(res.ip, 0) = GuestDailyLimit(env)
    /\ GuestKey(res.ip, 0) \in DOMAIN kv
    /\ res.out.allowed

\* another IP is allowed on the day the quota of the first was used up
C1_WitnessOtherIp ==
    /\ IsCheck /\ GuestEnabled /\ env.img_url /\ res.fail = "none"
    /\ \E ip \in IPs : ip # res.ip /\ Calls(ip, res.day) = GuestDailyLimit(env)
    /\ res.out.allowed

\* C2 as stated, read for a deployment whose store is bound: 401 when guest
\* uploads are disabled, else 413
\* when the file exceeds the cap, else 429 with remaining = 0 when the counter of
\* the (IP, day) has reached dailyLimit, else allowed with
\* remaining = dailyLimit - counter; and the store is never written.
C2_Original ==
    (IsCheck /\ env.img_url) =>
        /\ ~res.wrote
        /\ IF ~GuestEnabled THEN ~res.out.allowed /\ res.out.status = 401
           ELSE IF res.fileSize > GuestMaxSize(env)
                THEN ~res.out.allowed /\ res.out.status = 413
           ELSE IF Calls(res.ip, res.day) >= GuestDailyLimit(env)
                THEN ~res.out.allowed /\ res.out.status = 429
                     /\ res.out.hasRemaining /\ res.out.remaining = 0
           ELSE /\ res.out.allowed /\ res.out.hasRemaining
                /\ res.out.remaining = GuestDailyLimit(env) - Calls(res.ip, res.day)

\* C2, amended: the order 401, 413, 429, allowed holds when the store is bound
\* and its read succeeds; when no store is bound or the read fails, an enabled
\* guest with a file within the cap is allowed without a remaining count,
\* whatever the counter is.  The store is never written.
C2_DecisionOrder ==
    IsCheck =>
        /\ ~res.wrote
        /\ IF ~GuestEnabled THEN ~res.out.allowed /\ res.out.status = 401
           ELSE IF res.fileSize > GuestMaxSize(env)
                THEN ~res.out.allowed /\ res.out.status = 413
           ELSE IF ~env.img_url \/ res.fail = "get"
                THEN res.out.allowed /\ ~res.out.hasRemaining
           ELSE IF Calls(res.ip, res.day) >= GuestDailyLimit(env)
                THEN ~res.out.allowed /\ res.out.status = 429
                     /\ res.out.hasRemaining /\ res.out.remaining = 0
           ELSE /\ res.out.allowed /\ res.out.hasRemaining
                /\ res.out.remaining = GuestDailyLimit(env) - Calls(res.ip, res.day)

\* an oversized file is refused with 413 although the quota is used up as well
C2_Witness ==
    /\ IsCheck /\ GuestEnabled /\ env.img_url
    /\ res.fileSize > GuestMaxSize(env)
    /\ Calls(res.ip, res.day) >= GuestDailyLimit(env)
    /\ res.out.status = 413

\* C3: when the store read fails during checkGuestUpload (guests enabled, file
\* within the cap) the answer is allowed; when the read or the write fails during
\* incrementGuestCount the call returns normally and raises nothing.
C3_FailOpen ==
    /\ (IsCheck /\ GuestEnabled /\ res.fileSize <= GuestMaxSize(env) /\ res.fail = "get")
            => (res.out.allowed /\ ~res.out.raised)
    /\ (IsIncrement /\ res.fail # "none") => ~res.out.raised

\* the read fails while the quota of the IP is used up, and the guest is allowed
C3_Witness ==
    /\ IsCheck /\ GuestEnabled /\ env.img_url /\ res.fail = "get"
    /\ res.fileSize <= GuestMaxSize(env)
    /\ Calls(res.ip, res.day) >= GuestDailyLimit(env)
    /\ res.out.allowed

\* the write of an increment fails: nothing is raised and nothing is stored
C3_WitnessIncrement ==
    /\ IsIncrement /\ GuestEnabled /\ env.img_url /\ res.fail = "put"
    /\ ~res.out.raised /\ ~res.wrote

\* the counter stored for an IP on the current day
StoredCount(ip) ==
    OrDefault(ParseInt(KVGetText(kv, GuestKey(ip, getTodayKey(now)), now)), 0)

\* C14: when the incrementGuestCount invocations for an IP and day have all
\* returned, however their store reads and writes were interleaved, the stored
\* counter equals the number of invocations that ran (the count before was 0),
\* and a checkGuestUpload made then reports remaining = dailyLimit - that
\* number, or 429 when the number has reached dailyLimit.
C14_NoLostIncrement ==
    (InFlight = {}) =>
        /\ \A ip \in IPs : StoredCount(ip) = Calls(ip, getTodayKey(now))
        /\ (IsCheck /\ GuestEnabled /\ env.img_url /\ res.fail = "none"
                /\ res.fileSize <= GuestMaxSize(env)) =>
                IF Calls(res.ip, res.day) >= GuestDailyLimit(env)
                THEN ~res.out.allowed /\ res.out.status = 429
                ELSE /\ res.out.allowed
                     /\ res.out.remaining
                            = GuestDailyLimit(env) - Calls(res.ip, res.day)

(***************************************************************************)
(* Properties of the chunked-upload session endpoints                      *)
(***************************************************************************)
IsInit == res.op = "init"

IsGetStatus == res.op = "getStatus"

Missing(v) == v.t = "undefined"

C4_WitnessAtMax ==
    /\ IsInit /\ res.body.fileSize.n = MAX_FILE_SIZE
    /\ res.out.status = 200 /\ res.wrote

\* C5: a successful init has stored, under upload:{uploadId} and for 3600
\* seconds, a session with status pending, no uploaded chunks and a storageMode
\* that is the supplied tag when that is a known backend tag and telegram
\* otherwise; the response carries the same uploadId and the fixed chunk size.
C5_SessionPersisted ==
    (IsInit /\ res.out.status = 200) =>
        LET key == UploadKey(res.out.uploadId)
            given == res.body.storageMode
        IN  /\ key \in DOMAIN kv
            /\ kv[key].expiration = now + 3600
            /\ kv[key].json["uploadId"] = Str(res.out.uploadId)
            /\ kv[key].json["status"] = Str("pending")
            /\ kv[key].json["uploadedChunks"] = Arr(<<>>)
            /\ kv[key].json["storageMode"].t = "string"
            /\ kv[key].json["storageMode"].s \in validModes
            /\ kv[key].json["storageMode"].s =
                   IF given.t = "string" /\ given.s \in validModes
                   THEN given.s ELSE "telegram"
            /\ res.out.chunkSize = 5 * 1024 * 1024

\* an unknown tag was supplied and the session is stored for telegram
C5_Witness ==
    /\ IsInit /\ res.out.status = 200
    /\ res.body.storageMode = Str("ftp")
    /\ kv[UploadKey(res.out.uploadId)].json["storageMode"] = Str("telegram")

SnapshotFields == {"fileName", "fileSize", "totalChunks", "storageMode",
                   "uploadedChunks", "status"}

SameSnapshot(data, task) ==
    \A f \in SnapshotFields : f \in DOMAIN data /\ data[f] = task[f]

KnownId == res.uploadId.s \in DOMAIN inits

LiveId == KnownId /\ now < inits[res.uploadId.s].at + 3600

\* C6 as stated, read for a deployment whose store is bound: getStatus answers
\* 404 for an uploadId no init has returned and for one whose TTL has lapsed,
\* answers the snapshot init persisted for one whose TTL has not lapsed, and never
\* changes the store.
C6_Original ==
    (IsGetStatus /\ res.uploadId.def /\ res.uploadId.s # "" /\ env.img_url) =>
        /\ ~res.wrote
        /\ ~LiveId => res.out.status = 404
        /\ LiveId => /\ res.out.status = 200
                     /\ SameSnapshot(res.out.data, inits[res.uploadId.s].task)

\* C6 restricted to the calls whose store read succeeds: the part of C6 that
\* the handler meets.
C6_StatusSnapshot ==
    (IsGetStatus /\ res.uploadId.def /\ res.uploadId.s # "") =>
        /\ ~res.wrote
        /\ (env.img_url /\ res.fail = "none") =>
            /\ ~LiveId => res.out.status = 404
            /\ LiveId => /\ res.out.status = 200
                         /\ SameSnapshot(res.out.data, inits[res.uploadId.s].task)
                         /\ res.out.data["fileName"] = inits[res.uploadId.s].body.fileName
                         /\ res.out.data["fileSize"] = inits[res.uploadId.s].body.fileSize
                         /\ res.out.data["totalChunks"] =
                                inits[res.uploadId.s].body.totalChunks

\* the TTL of a session has lapsed and getStatus answers 404
C6_Witness ==
    /\ IsGetStatus /\ res.fail = "none" /\ KnownId /\ ~LiveId
    /\ res.out.status = 404

\* the TTL has not lapsed, time has passed, and getStatus answers the snapshot
C6_WitnessLive ==
    /\ IsGetStatus /\ res.fail = "none" /\ LiveId
    /\ now > inits[res.uploadId.s].at
    /\ res.out.status = 200

\* getStatus answers 404 for an uploadId that was never initialised
C6_WitnessUnknown ==
    /\ IsGetStatus /\ res.fail = "none" /\ env.img_url
    /\ res.uploadId.def /\ res.uploadId.s # "" /\ ~KnownId
    /\ inits # <<>>
    /\ res.out.status = 404

\* C10 (as far as a model of possibilities can state it): init does not write
\* over the record of a live session.  generateUploadId draws 16 random bytes and
\* init does not look for an existing record, so this holds only when the draw
\* is fresh: it is a statement about the probability of a collision.
C10_NoOverwrite == IsInit => ~res.overwrote

\* C11: every session record in the store keeps the invariants of the data
\* model: totalChunks >= 1, totalChunks * chunkSize >= fileSize,
\* chunkSize * (totalChunks - 1) < fileSize, fileSize <= the maximum, and
\* uploadedChunks a duplicate-free list of indices in [0, totalChunks).
C11_SessionInvariants ==
    \A key \in DOMAIN kv :
        key.ns = "upload" =>
            LET session == kv[key].json
                totalChunks == session["totalChunks"].n
                fileSize == session["fileSize"].n
                uploadedChunks == session["uploadedChunks"].a
            IN  /\ totalChunks >= 1
                /\ totalChunks * CHUNK_SIZE >= fileSize
                /\ CHUNK_SIZE * (totalChunks - 1) < fileSize
                /\ fileSize <= MAX_FILE_SIZE
                /\ \A i \in 1..Len(uploadedChunks) :
                        /\ uploadedChunks[i] \in 0..(totalChunks - 1)
                        /\ \A j \in 1..Len(uploadedChunks) :
                                uploadedChunks[i] = uploadedChunks[j] => i = j

\* C13: when authentication is required and the caller is not authenticated,
\* init stores no session and returns no uploadId, whatever the guest
\* configuration and the quota are.
C13_GuestsRefused ==
    (IsInit /\ res.authRequired /\ ~res.authenticated)
        => (~res.wrote /\ res.out.uploadId = "" /\ res.out.status # 200)

\* C7: when the read of the (bound) store fails during getStatus the answer is
\* the answer for an absent session, 404.
C7_FailClosed ==
    (IsGetStatus /\ res.uploadId.def /\ res.uploadId.s # "" /\ env.img_url
        /\ res.fail = "get")
        => res.out.status = 404

(***************************************************************************)
(* Properties of the signer                                                *)
(***************************************************************************)
\* the two invocations ran at the same instant with the same method, host and
\* credentials
SameInstant ==
    /\ Len(signed) > 1
    /\ signed[1].at = signed[2].at
    /\ signed[1].method = signed[2].method
    /\ signed[1].url.host = signed[2].url.host
    /\ signed[1].credentials = signed[2].credentials

\* two queries hold the same pairs the same number of times
SameQuery(p, q) ==
    /\ Len(p) = Len(q)
    /\ \A i \in 1..Len(p) :
          Cardinality({j \in 1..Len(p) : p[j] = p[i]})
              = Cardinality({j \in 1..Len(q) : q[j] = p[i]})

\* the headers a caller adds to the signer's own, names in lower case
HeaderSet(headers) ==
    { <<TrimText(ToLowerCase(headers[i][1])), TrimText(headers[i][2])>> :
        i \in {j \in 1..Len(headers) :
                 headers[j][1] \notin {XAmzDate, XAmzContentSha256, HostHeader}} }

\* the content of a body; an absent body has the empty content
Content(body) == IF body.def THEN body.s ELSE <<>>

SameCanonicalInputs ==
    /\ signed[1].url.pathname = signed[2].url.pathname
    /\ SameQuery(signed[1].url.searchParams, signed[2].url.searchParams)
    /\ HeaderSet(signed[1].headers) = HeaderSet(signed[2].headers)
    /\ Content(signed[1].body) = Content(signed[2].body)

SameArguments ==
    /\ signed[1].url = signed[2].url
    /\ signed[1].headers = signed[2].headers
    /\ signed[1].body = signed[2].body

C12_WitnessSame ==
    /\ SameInstant /\ SameArguments
    /\ signed[1].at > 0
    /\ signed[1].headers # <<>> /\ signed[1].url.searchParams # <<>>
    /\ Authorization(signed[1].out.headers) = Authorization(signed[2].out.headers)

(***************************************************************************)
(* Properties of the storage backends                                      *)
(***************************************************************************)
IsBackend == res.op \in {"uploadToDiscord", "getDiscordFileUrl", "deleteDiscordMessage",
                         "putObject", "getObject", "deleteObject", "headObject",
                         "uploadToHuggingFace", "getHuggingFaceFile",
                         "deleteHuggingFaceFile"}

Requested(target) == \E i \in 1..Len(res.out.requests) : res.out.requests[i] = target

\* the upstream did not answer with a success carrying an attachment
WebhookFailed == res.reply.rejected \/ ~Ok(res.reply) \/ ~res.reply.attachment

\* C8: with a webhook URL configured, uploadToDiscord sends its requests to the
\* webhook only, also when a bot token and a channel are configured; when the
\* webhook request fails, the call returns a failure and has made no bot
\* request.  The bot is requested only when no webhook URL is configured.
C8_WebhookExclusive ==
    res.op = "uploadToDiscord" =>
        /\ res.benv.DISCORD_WEBHOOK_URL # "" =>
            /\ \A i \in 1..Len(res.out.requests) : res.out.requests[i] = "webhook"
            /\ WebhookFailed => (res.out.kind = "failure" /\ ~Requested("bot"))
        /\ Requested("bot") => res.benv.DISCORD_WEBHOOK_URL = ""

\* webhook and bot are both configured, the webhook answers 500, and the call
\* fails after its one webhook request
C8_Witness ==
    /\ res.op = "uploadToDiscord"
    /\ res.benv.DISCORD_WEBHOOK_URL # "" /\ res.benv.DISCORD_BOT_TOKEN # ""
    /\ res.benv.DISCORD_CHANNEL_ID # ""
    /\ ~res.reply.rejected /\ res.reply.status = 500
    /\ res.out = Out("failure", <<"webhook">>)

\* the upstream request failed: a transport error or a non-success status
UpstreamFailed ==
    /\ res.out.requests # <<>>
    /\ res.reply.rejected \/ ~Ok(res.reply)

\* C9: a backend operation whose upstream request fails hands back a failure
\* result (false for delete; null is allowed for an upstream 404) and raises
\* nothing; null is handed back only for an upstream 404.
C9_FailuresAreResults ==
    IsBackend =>
        /\ UpstreamFailed =>
            /\ res.out.kind # "raised"
            /\ IF res.cap = "delete" THEN res.out.kind = "false"
               ELSE \/ res.out.kind = "failure"
                    \/ res.out.kind = "null" /\ ~res.reply.rejected
                                             /\ res.reply.status = 404
        /\ res.out.kind = "null" => (~res.reply.rejected /\ res.reply.status = 404)

====
